---------------------------- MODULE Spec2Model ----------------------------
(***************************************************************************)
(* A model of src/cpu/segment.cpp: the Reducer policy (init/update/write), *)
(* segment_csr and segment_coo.                                            *)
(*                                                                         *)
(* Tensors are records [sizes, strides, data]; data is a function over     *)
(* 0 .. n-1 (the flat buffer).  scalar_t is modelled as a signed integer   *)
(* type with the range ScalarMin .. ScalarMax whose addition wraps.        *)
(* int64_t values (positions, offsets) are plain integers.                 *)
(***************************************************************************)
EXTENDS Integers, Sequences, FiniteSets, TLC

VARIABLES
    op,        \* which operator the call is: "csr", "coo" ("" before a call)
    reduce,    \* the reduce string of the call
    src,       \* the src tensor of the call
    index,     \* the indptr (csr) or index (coo) tensor as the caller passed it
    out_in,    \* the caller's out before the call (NoTensor: omitted, csr only)
    out,       \* the out tensor after the call
    arg_out,   \* the arg_out buffer after the call (NullOpt for sum/mean)
    status,    \* "idle", "running", "ok" or the failure of the call
    ndebug,    \* whether the build defines NDEBUG (assert compiled out)
    calls,     \* number of segment_coo calls made into out
    work,      \* loop state of a call in progress
    oob        \* whether the call touched out/arg_out outside its block

vars == <<op, reduce, src, index, out_in, out, arg_out, status, ndebug,
          calls, work, oob>>

----------------------------------------------------------------------------
(* Bounds of the model. *)

\* a one-dimensional src holds at most MaxE elements
MaxE == 2
\* out holds at most MaxGroups groups along the reduce dimension
MaxGroups == 2
\* at most MaxCalls segment_coo calls accumulate into the same out
MaxCalls == 2

----------------------------------------------------------------------------
(* scalar_t *)

\* std::numeric_limits<scalar_t>::max()
ScalarMax == 1
\* std::numeric_limits<scalar_t>::lowest()
ScalarMin == -ScalarMax - 1
Scalar == ScalarMin .. ScalarMax

\* conversion of an int result back to scalar_t
ToScalar(x) == ((x - ScalarMin) % (ScalarMax - ScalarMin + 1)) + ScalarMin

\* C++ integer division (truncation toward zero), b > 0
Div(a, b) == IF a >= 0 THEN a \div b ELSE -((-a) \div b)

----------------------------------------------------------------------------
(* enum ReductionType and the reduce2REDUCE map *)

SUM == "SUM"
MEAN == "MEAN"
MIN == "MIN"
MAX == "MAX"

reduce2REDUCE ==
    [r \in {"sum", "add", "mean", "min", "max"} |->
        CASE r = "sum" -> SUM
          [] r = "add" -> SUM
          [] r = "mean" -> MEAN
          [] r = "min" -> MIN
          [] r = "max" -> MAX]

\* reduce2REDUCE.at(reduce) throws std::out_of_range for an unknown key
HasKey(r) == r \in DOMAIN reduce2REDUCE

----------------------------------------------------------------------------
(* struct Reducer<scalar_t, REDUCE> *)

init(REDUCE) ==
    IF REDUCE = MIN THEN ScalarMax
    ELSE IF REDUCE = MAX THEN ScalarMin
    ELSE 0

\* update(&val, new_val, &arg, new_arg): the new (*val, *arg)
update(REDUCE, val, new_val, arg, new_arg) ==
    IF REDUCE = SUM \/ REDUCE = MEAN
    THEN [val |-> ToScalar(val + new_val), arg |-> arg]
    ELSE IF (REDUCE = MIN /\ new_val < val) \/ (REDUCE = MAX /\ new_val > val)
    THEN [val |-> new_val, arg |-> new_arg]
    ELSE [val |-> val, arg |-> arg]

\* a write that stores val and arg whatever count is
write_uncounted(REDUCE, address, val, arg_address, arg, count) ==
    IF REDUCE = SUM
    THEN [address |-> val, arg_address |-> arg_address]
    ELSE IF REDUCE = MEAN
    THEN [address |-> ToScalar(Div(val, IF count > 0 THEN count ELSE 1)),
          arg_address |-> arg_address]
    ELSE [address |-> val, arg_address |-> arg]

\* write(address, val, arg_address, arg, count): the new (*address,
\* *arg_address), given their old contents
write(REDUCE, address, val, arg_address, arg, count) ==
    IF REDUCE = SUM
    THEN [address |-> val, arg_address |-> arg_address]
    ELSE IF REDUCE = MEAN
    THEN [address |-> ToScalar(Div(val, IF count > 0 THEN count ELSE 1)),
          arg_address |-> arg_address]
    ELSE IF count > 0
    THEN [address |-> val, arg_address |-> arg]
    ELSE [address |-> 0, arg_address |-> arg_address]

----------------------------------------------------------------------------
(* Tensors of the host runtime *)

NoTensor == [sizes |-> <<>>, strides |-> <<>>, data |-> <<>>, none |-> TRUE]
NullOpt == <<>>

RECURSIVE Prod(_, _, _)
\* product of s[lo] .. s[hi] (1 when the range is empty)
Prod(s, lo, hi) == IF lo > hi THEN 1 ELSE s[lo] * Prod(s, lo + 1, hi)

numel(sizes) == Prod(sizes, 1, Len(sizes))

\* strides of a contiguous tensor of these sizes
ContiguousStrides(sizes) ==
    [i \in 1 .. Len(sizes) |-> Prod(sizes, i + 1, Len(sizes))]

Tensor(sizes, data) ==
    [sizes |-> sizes, strides |-> ContiguousStrides(sizes), data |-> data,
     none |-> FALSE]

dim(t) == Len(t.sizes)
\* t.size(i), i counted from 0
size(t, i) == t.sizes[i + 1]

\* t.expand(sizes): a broadcast dimension gets stride 0
expand(t, sizes) ==
    [t EXCEPT !.sizes = sizes,
              !.strides = [i \in 1 .. Len(sizes) |->
                   IF t.sizes[i] = sizes[i] THEN t.strides[i] ELSE 0]]

\* a contiguous tensor of these sizes filled with v
Filled(sizes, v) == Tensor(sizes, [a \in 0 .. numel(sizes) - 1 |-> v])

\* torch::full_like(out, v): a buffer of out's size filled with v
full_like(t, v) == [a \in DOMAIN t.data |-> v]

RECURSIVE Unravel(_, _, _, _)
\* the offset of flat position idx in dimensions 1 .. i of (sizes, strides)
Unravel(idx, sizes, strides, i) ==
    IF i = 0 THEN 0
    ELSE (idx % sizes[i]) * strides[i]
         + Unravel(idx \div sizes[i], sizes, strides, i - 1)

\* IndexToOffset<int64_t>::get(idx, info)
IndexToOffset(idx, info) == Unravel(idx, info.sizes, info.strides, dim(info))

\* IndexPtrToOffset<int64_t>::get(idx, info): the last dimension holds
\* size - 1 groups
IndexPtrToOffset(idx, info) ==
    LET d == dim(info)
        g == info.sizes[d] - 1
    IN  (idx % g) * info.strides[d]
        + Unravel(idx \div g, info.sizes, info.strides, d - 1)

Fail(what, o) == [status |-> what, out |-> o, arg_out |-> NullOpt, oob |-> FALSE]

----------------------------------------------------------------------------
(* segment_csr.  The loop state st is [out, arg_out, vals, args]; c holds  *)
(* the values computed before the loop (lines 118-123).                    *)

Lanes(c) == 0 .. c.K - 1

\* lines 138-140
csr_init(st, c) == [st EXCEPT !.vals = [k \in Lanes(c) |-> init(c.REDUCE)]]

\* lines 142-145: one source position e, every lane
csr_update(e, offset, st, c) ==
    [st EXCEPT
       !.vals = [k \in Lanes(c) |->
                   update(c.REDUCE, st.vals[k],
                          c.src_data[offset + e * c.K + k], st.args[k], e).val],
       !.args = [k \in Lanes(c) |->
                   update(c.REDUCE, st.vals[k],
                          c.src_data[offset + e * c.K + k], st.args[k], e).arg]]

RECURSIVE csr_row(_, _, _, _, _)
\* lines 141-146: the loop over e
csr_row(e, row_end, offset, st, c) ==
    IF e >= row_end THEN st
    ELSE csr_row(e + 1, row_end, offset, csr_update(e, offset, st, c), c)

\* the store of one Reducer::write result w at address a
csr_store(a, w, st, c) ==
    [st EXCEPT !.out[a] = w.address,
               !.arg_out = IF c.REDUCE \in {MIN, MAX}
                           THEN [@ EXCEPT ![a] = w.arg_address] ELSE @]

RECURSIVE csr_write(_, _, _, _, _)
\* lines 147-151: the loop over k
csr_write(k, n, count, st, c) ==
    IF k >= c.K THEN st
    ELSE csr_write(k + 1, n, count,
                   csr_store(n * c.K + k,
                             write(c.REDUCE, st.out[n * c.K + k], st.vals[k],
                                   IF c.REDUCE \in {MIN, MAX}
                                   THEN st.arg_out[n * c.K + k] ELSE 0,
                                   st.args[k], count),
                             st, c),
                   c)

\* an offset that reads every group from the first block of src
csr_offset_first(n, c) == 0

\* line 137: the offset of group n's block in src
csr_offset(n, c) == (n \div (size(c.indptr, dim(c.indptr) - 1) - 1)) * c.E * c.K

\* lines 134-151, given row_start and row_end
csr_rows(n, row_start, row_end, st, c) ==
    csr_write(0, n, row_end - row_start,
              csr_row(row_start, row_end, csr_offset(n, c), csr_init(st, c), c),
              c)

\* lines 133-135, given the offset of indptr's entry
csr_bounds(n, off, st, c) ==
    csr_rows(n, c.indptr.data[off], c.indptr.data[off + c.stride], st, c)

\* lines 132-152: the body of the loop over n
csr_group(n, st, c) == csr_bounds(n, IndexPtrToOffset(n, c.indptr), st, c)

RECURSIVE csr_loop(_, _, _)
csr_loop(n, st, c) ==
    IF n >= c.N THEN st ELSE csr_loop(n + 1, csr_group(n, st, c), c)

\* lines 87-92: indptr expanded to src's leading dimensions
csr_expand(s, indptr) ==
    expand(indptr, [i \in 1 .. dim(indptr) |->
                       IF i < dim(indptr) THEN s.sizes[i] ELSE indptr.sizes[i]])

\* lines 98-104: the checks of a supplied out
csr_out_ok(s, ind, o) ==
    /\ \A i \in 0 .. dim(o) - 1 :
          i # dim(ind) - 1 => size(s, i) = size(o, i)
    /\ size(o, dim(ind) - 1) = size(ind, dim(ind) - 1) - 1

\* lines 105-108: out allocated by torch::empty, holding whatever the
\* allocator returns (garbage)
csr_empty(s, ind, garbage) ==
    Filled([i \in 1 .. dim(s) |->
              IF i = dim(ind) THEN size(ind, dim(ind) - 1) - 1 ELSE s.sizes[i]],
           garbage)

\* line 118
csr_N(ind, o) ==
    size(o, dim(ind) - 1) * (numel(ind.sizes) \div size(ind, dim(ind) - 1))

\* lines 118-123: the values the loop uses
csr_context(s, ind, o, r, N) ==
    [src_data |-> s.data, indptr |-> ind, REDUCE |-> reduce2REDUCE[r],
     N |-> N, K |-> numel(o.sizes) \div N, E |-> size(s, dim(ind) - 1),
     stride |-> ind.strides[dim(ind)]]

\* lines 111-116, 128-130: arg_out filled with src.size(reduce_dim), and
\* the zero-initialised vectors vals(K) and args(K)
csr_start(o, c) ==
    [out |-> o.data,
     arg_out |-> IF c.REDUCE \in {MIN, MAX} THEN full_like(o, c.E) ELSE NullOpt,
     vals |-> [k \in Lanes(c) |-> 0],
     args |-> [k \in Lanes(c) |-> 0]]

Done(o, st) ==
    [status |-> "ok", out |-> [o EXCEPT !.data = st.out],
     arg_out |-> st.arg_out, oob |-> FALSE]

\* lines 124-156
csr_run(o, c) == Done(o, csr_loop(0, csr_start(o, c), c))

\* lines 97-156, given the expanded indptr and the out to fill
csr_checked(s, ind, out_opt, o, r) ==
    IF ~out_opt.none /\ ~csr_out_ok(s, ind, o)
    THEN Fail("Input mismatch", out_opt)
    ELSE IF ~HasKey(r) THEN Fail("out_of_range", out_opt)
    ELSE csr_run(o, csr_context(s, ind, o, r, csr_N(ind, o)))

\* lines 87-156, given the expanded indptr
csr_expanded(s, ind, out_opt, r, garbage) ==
    csr_checked(s, ind, out_opt,
                IF out_opt.none THEN csr_empty(s, ind, garbage) ELSE out_opt, r)

\* segment_csr(src, indptr, out_opt, reduce); garbage is what the buffer
\* torch::empty returns holds
segment_csr(s, indptr, out_opt, r, garbage) ==
    IF ~(dim(s) >= dim(indptr)) THEN Fail("Input mismatch", out_opt)
    ELSE csr_expanded(s, csr_expand(s, indptr), out_opt, r, garbage)

----------------------------------------------------------------------------
(* segment_coo.  The loop state st is [out, arg_out, vals, args, idx,      *)
(* row_start, status, oob]; c holds the values computed before the loop    *)
(* (lines 190-196) and the build: ndebug, and what an access outside the   *)
(* buffer does (segv: the process dies; otherwise a read yields garbage    *)
(* and a write lands in foreign memory).                                   *)

\* A read of buf[a]
Load(buf, a, c) == IF a \in DOMAIN buf THEN buf[a] ELSE c.garbage

\* A write of buf[a]
Store(buf, a, v) == IF a \in DOMAIN buf THEN [buf EXCEPT ![a] = v] ELSE buf

\* An access of out/arg_out at address a while block e_1 is processed: it is
\* recorded when it leaves the block's region [e_1*N*K, (e_1+1)*N*K)
Touch(st, a, e_1, c) ==
    [st EXCEPT
       !.oob = @ \/ a < e_1 * c.N * c.K \/ a >= (e_1 + 1) * c.N * c.K,
       !.status = IF a \notin DOMAIN st.out /\ c.segv THEN "segv" ELSE @]

\* lines 209-211: the accumulators are seeded from out
coo_seed(e_1, st, c) ==
    [st EXCEPT !.vals = [k \in Lanes(c) |-> st.out[e_1 * c.N * c.K + k]]]

\* lines 216-219
coo_update(e_1, e_2, st, c) ==
    [st EXCEPT
       !.vals = [k \in Lanes(c) |->
                   update(c.REDUCE, st.vals[k],
                          c.src_data[e_1 * c.E_2 * c.K + e_2 * c.K + k],
                          st.args[k], e_2).val],
       !.args = [k \in Lanes(c) |->
                   update(c.REDUCE, st.vals[k],
                          c.src_data[e_1 * c.E_2 * c.K + e_2 * c.K + k],
                          st.args[k], e_2).arg]]

\* a count of every position of the block up to e_2
coo_count_block(e_2, st) == e_2 + 1

\* e_2 + 1 - row_start, the count handed to Reducer::write
coo_count(e_2, st) == e_2 + 1 - st.row_start

\* the store of one Reducer::write result w at address a
coo_store(a, w, st, c) ==
    [st EXCEPT !.out = Store(@, a, w.address),
               !.arg_out = IF c.REDUCE \in {MIN, MAX}
                           THEN Store(@, a, w.arg_address) ELSE @]

\* the address of (e_1, idx, k) in out and arg_out
coo_address(e_1, idx, k, c) == e_1 * c.N * c.K + idx * c.K + k

\* Reducer::write at address a, once the access is recorded
coo_write_at(a, k, e_2, st, c) ==
    IF st.status # "running" THEN st
    ELSE coo_store(a,
                   write(c.REDUCE, Load(st.out, a, c), st.vals[k],
                         IF c.REDUCE \in {MIN, MAX}
                         THEN Load(st.arg_out, a, c) ELSE 0,
                         st.args[k], coo_count(e_2, st)),
                   st, c)

\* lines 223-226 and 234-237: Reducer::write for lane k of group idx
coo_write_lane(k, e_1, e_2, st, c) ==
    coo_write_at(coo_address(e_1, st.idx, k, c), k, e_2,
                 Touch(st, coo_address(e_1, st.idx, k, c), e_1, c), c)

\* vals[k] read from out at address b, once the access is recorded
coo_reseed_at(b, k, st, c) ==
    IF st.status # "running" THEN st
    ELSE [st EXCEPT !.vals[k] = Load(st.out, b, c)]

\* line 239: vals[k] seeded from out at group next_idx
coo_reseed_lane(k, e_1, next_idx, st, c) ==
    IF st.status # "running" THEN st
    ELSE coo_reseed_at(coo_address(e_1, next_idx, k, c), k,
                       Touch(st, coo_address(e_1, next_idx, k, c), e_1, c), c)

RECURSIVE coo_write(_, _, _, _, _)
\* lines 222-227: the loop over k at the end of the block
coo_write(k, e_1, e_2, st, c) ==
    IF k >= c.K \/ st.status # "running" THEN st
    ELSE coo_write(k + 1, e_1, e_2, coo_write_lane(k, e_1, e_2, st, c), c)

RECURSIVE coo_flush(_, _, _, _, _, _)
\* lines 233-240: the loop over k at a change of group
coo_flush(k, e_1, e_2, next_idx, st, c) ==
    IF k >= c.K \/ st.status # "running" THEN st
    ELSE coo_flush(k + 1, e_1, e_2, next_idx,
                   coo_reseed_lane(k, e_1, next_idx,
                                   coo_write_lane(k, e_1, e_2, st, c), c),
                   c)

\* line 241
coo_row_start(e_2, st) == [st EXCEPT !.row_start = e_2 + 1]

\* line 244
coo_advance(next_idx, st) == [st EXCEPT !.idx = next_idx]

RECURSIVE coo_row(_, _, _, _, _)

\* lines 229-244, given next_idx: assert(idx <= next_idx) aborts unless the
\* build defines NDEBUG
coo_peek(e_2, e_1, offset, next_idx, st, c) ==
    IF ~c.ndebug /\ ~(st.idx <= next_idx)
    THEN [st EXCEPT !.status = "assert"]
    ELSE coo_row(e_2 + 1, e_1, offset,
                 coo_advance(next_idx,
                     IF st.idx # next_idx
                     THEN coo_row_start(e_2,
                              coo_flush(0, e_1, e_2, next_idx, st, c))
                     ELSE st),
                 c)

\* lines 221-245, once the accumulators are updated
coo_step(e_2, e_1, offset, st, c) ==
    IF e_2 = c.E_2 - 1
    THEN coo_row(e_2 + 1, e_1, offset, coo_write(0, e_1, e_2, st, c), c)
    ELSE coo_peek(e_2, e_1, offset,
                  c.index.data[offset + (e_2 + 1) * c.stride], st, c)

\* lines 214-246: the loop over e_2
coo_row(e_2, e_1, offset, st, c) ==
    IF e_2 >= c.E_2 \/ st.status # "running" THEN st
    ELSE coo_step(e_2, e_1, offset, coo_update(e_1, e_2, st, c), c)

\* lines 207-213, given the offset of the block's first index
coo_first(e_1, offset, st, c) ==
    [coo_seed(e_1, coo_advance(c.index.data[offset], st), c)
       EXCEPT !.row_start = 0]

\* lines 205-247: the body of the loop over e_1
coo_block_at(e_1, offset, st, c) ==
    coo_row(0, e_1, offset, coo_first(e_1, offset, st, c), c)

coo_block(e_1, st, c) ==
    coo_block_at(e_1, IndexToOffset(e_1 * c.E_2, c.index), st, c)

RECURSIVE coo_loop(_, _, _)
coo_loop(e_1, st, c) ==
    IF e_1 >= c.E_1 \/ st.status # "running" THEN st
    ELSE coo_loop(e_1 + 1, coo_block(e_1, st, c), c)

\* lines 168-173: index expanded to src's leading dimensions
coo_expand(s, idx) == expand(idx, [i \in 1 .. dim(idx) |-> s.sizes[i]])

\* lines 179-181
coo_out_ok(s, ind, o) ==
    \A i \in 0 .. dim(o) - 1 : i # dim(ind) - 1 => size(s, i) = size(o, i)

\* lines 190-196: the values the loop uses, and the build
coo_context(s, ind, o, r, nd, ub) ==
    [src_data |-> s.data, index |-> ind, REDUCE |-> reduce2REDUCE[r],
     E_1 |-> numel(ind.sizes) \div size(s, dim(ind) - 1),
     E_2 |-> size(s, dim(ind) - 1),
     K |-> numel(s.sizes) \div numel(ind.sizes),
     N |-> size(o, dim(ind) - 1),
     stride |-> ind.strides[dim(ind)],
     ndebug |-> nd, segv |-> ub.segv, garbage |-> ub.garbage]

\* lines 183-188, 201-203: arg_out filled with src.size(reduce_dim), and
\* the zero-initialised vectors vals(K) and args(K)
coo_start(o, c) ==
    [out |-> o.data,
     arg_out |-> IF c.REDUCE \in {MIN, MAX} THEN full_like(o, c.E_2) ELSE NullOpt,
     vals |-> [k \in Lanes(c) |-> 0],
     args |-> [k \in Lanes(c) |-> 0],
     idx |-> 0, row_start |-> 0, status |-> "running", oob |-> FALSE]

Returned(o, st) ==
    [status |-> IF st.status = "running" THEN "ok" ELSE st.status,
     out |-> [o EXCEPT !.data = st.out],
     arg_out |-> st.arg_out, oob |-> st.oob]

\* lines 197-251
coo_run(o, c) == Returned(o, coo_loop(0, coo_start(o, c), c))

\* a segment_coo that checks out's sizes once its loop has run
coo_expanded_late(s, ind, o, r, nd, ub) ==
    IF ~HasKey(r) THEN Fail("out_of_range", o)
    ELSE IF ~coo_out_ok(s, ind, o)
    THEN [coo_run(o, coo_context(s, ind, o, r, nd, ub))
            EXCEPT !.status = "Input mismatch"]
    ELSE coo_run(o, coo_context(s, ind, o, r, nd, ub))

\* lines 175-251, given the expanded index
coo_expanded(s, ind, o, r, nd, ub) ==
    IF ~coo_out_ok(s, ind, o) THEN Fail("Input mismatch", o)
    ELSE IF ~HasKey(r) THEN Fail("out_of_range", o)
    ELSE coo_run(o, coo_context(s, ind, o, r, nd, ub))

\* segment_coo(src, index, out, reduce) in a build with (nd) or without
\* NDEBUG, where an access outside out's buffer does ub
segment_coo(s, idx, o, r, nd, ub) ==
    IF ~(dim(s) >= dim(idx)) THEN Fail("Input mismatch", o)
    ELSE coo_expanded(s, coo_expand(s, idx), o, r, nd, ub)

----------------------------------------------------------------------------
(* The inputs of a call *)

\* The src sizes and index ranks r the calls are made with (the reduce
\* dimension is r - 1), and whether the leading dimensions of the index
\* tensor are src's (dense) or all 1 (bcast):
\*   vectors of 1 .. MaxE elements;
\*   <<2, 1>>: two blocks of one element;
\*   <<2, 2>>, r = 1: two positions of two lanes;
\*   <<2, 2>>, r = 2: two blocks of two positions;
\*   <<2, 1, 2>>, r = 2: two blocks of one position of two lanes.
Cases ==
    {[sizes |-> <<e>>, r |-> 1, kinds |-> {"dense"}] : e \in 1 .. MaxE}
    \cup {[sizes |-> <<2, 1>>, r |-> 2, kinds |-> {"dense", "bcast"}],
          [sizes |-> <<2, 2>>, r |-> 1, kinds |-> {"dense"}],
          [sizes |-> <<2, 2>>, r |-> 2, kinds |-> {"bcast"}],
          [sizes |-> <<2, 1, 2>>, r |-> 2, kinds |-> {"bcast"}]}

SrcTensors(sizes) ==
    {Tensor(sizes, d) : d \in [0 .. numel(sizes) - 1 -> Scalar]}

\* whether every row of rows x len values is non-decreasing
NonDecreasing(d, rows, len) ==
    \A b \in 0 .. rows - 1 : \A i \in 0 .. len - 2 :
        d[b * len + i] <= d[b * len + i + 1]

\* the sizes of an index tensor of rank r for src sizes s
IndexSizes(s, r, last, kind) ==
    [i \in 1 .. r |->
        IF i = r THEN last ELSE IF kind = "bcast" THEN 1 ELSE s[i]]

\* the valid indptr tensors of a case: G groups, rows non-decreasing with
\* values in 0 .. E
IndptrTensors(cs) ==
    UNION {
      {Tensor(IndexSizes(cs.sizes, cs.r, G + 1, kind), d) :
         d \in {f \in [0 .. numel(IndexSizes(cs.sizes, cs.r, G + 1, kind)) - 1
                        -> 0 .. cs.sizes[cs.r]] :
                  NonDecreasing(f,
                      numel(IndexSizes(cs.sizes, cs.r, G + 1, kind)) \div (G + 1),
                      G + 1)}}
      : G \in 1 .. MaxGroups, kind \in cs.kinds }

\* the sizes of out for src sizes s reduced along dimension r to n groups
OutSizes(s, r, n) == [i \in 1 .. Len(s) |-> IF i = r THEN n ELSE s[i]]

\* what out holds before a call of segment_csr
PriorFills == {ScalarMin, ScalarMax}

Idle ==
    /\ op = "" /\ src = NoTensor /\ index = NoTensor
    /\ out_in = NoTensor /\ out = NoTensor /\ arg_out = NullOpt
    /\ status = "idle" /\ calls = 0 /\ work = <<>> /\ oob = FALSE

----------------------------------------------------------------------------
(* segment_csr called on valid arguments *)

CsrInit == Idle /\ ndebug = TRUE /\ reduce \in DOMAIN reduce2REDUCE

\* one call of segment_csr: out omitted, or supplied with some contents
CsrCall ==
    /\ status = "idle"
    /\ \E cs \in Cases : \E ip \in IndptrTensors(cs) :
       \E t \in SrcTensors(cs.sizes), g \in PriorFills, given \in BOOLEAN :
       \E o \in {IF given
                 THEN Filled(OutSizes(cs.sizes, cs.r, ip.sizes[cs.r] - 1), g)
                 ELSE NoTensor} :
       \E res \in {segment_csr(t, ip, o, reduce, g)} :
         /\ op' = "csr" /\ src' = t /\ index' = ip
         /\ out_in' = o /\ out' = res.out /\ arg_out' = res.arg_out
         /\ status' = res.status /\ oob' = res.oob
    /\ UNCHANGED <<reduce, ndebug, calls, work>>

CsrNext == CsrCall

SpecCsr == CsrInit /\ [][CsrNext]_vars

----------------------------------------------------------------------------
(* segment_coo called on valid arguments, once or repeatedly into one out *)

\* the cases whose src can be reduced into an out of these sizes
CasesFor(sizes) ==
    {cs \in Cases : /\ Len(cs.sizes) = Len(sizes)
                    /\ OutSizes(cs.sizes, cs.r, sizes[cs.r]) = sizes}

\* the index tensors of a case with values in 0 .. top: every index tensor
\* of src's leading sizes, and the broadcast ones where the case has them
IndexTensors(cs, top) ==
    UNION {
      {Tensor(IndexSizes(cs.sizes, cs.r, cs.sizes[cs.r], kind), d) :
         d \in [0 .. numel(IndexSizes(cs.sizes, cs.r, cs.sizes[cs.r], kind)) - 1
                 -> 0 .. top]}
      : kind \in cs.kinds \cup {"dense"} }

\* whether every row of the index tensor ix is non-decreasing
Sorted(ix) ==
    NonDecreasing(ix.data, numel(ix.sizes) \div ix.sizes[dim(ix)],
                  ix.sizes[dim(ix)])

\* an access outside the buffer that goes unnoticed and reads g
Silent(g) == [segv |-> FALSE, garbage |-> g]
\* an access outside the buffer that kills the process
Segv == [segv |-> TRUE, garbage |-> 0]

\* the out tensors a caller starts with: every shape some case reduces
\* into, filled with one of fills
OutTensors(fills) ==
    {Filled(OutSizes(cs.sizes, cs.r, n), v) :
        cs \in Cases, n \in 1 .. MaxGroups, v \in fills}

\* one call segment_coo(t, ix, out, reduce) into the caller's out
CooDo(t, ix, ub) ==
    \E res \in {segment_coo(t, ix, out, reduce, ndebug, ub)} :
       /\ op' = "coo" /\ src' = t /\ index' = ix
       /\ out_in' = out /\ out' = res.out /\ arg_out' = res.arg_out
       /\ status' = res.status /\ oob' = res.oob /\ calls' = calls + 1
       /\ UNCHANGED <<reduce, ndebug, work>>

CooInit ==
    /\ op = "" /\ src = NoTensor /\ index = NoTensor /\ out_in = NoTensor
    /\ arg_out = NullOpt /\ status = "idle" /\ calls = 0 /\ work = <<>>
    /\ oob = FALSE /\ ndebug = TRUE
    /\ reduce \in DOMAIN reduce2REDUCE
    /\ out \in OutTensors(Scalar)

\* a call with a sorted, in-range index; further calls go into a
\* one-dimensional out
CooCall ==
    /\ status \in {"idle", "ok"}
    /\ calls < MaxCalls
    /\ calls = 0 \/ dim(out) = 1
    /\ \E cs \in CasesFor(out.sizes) :
       \E ix \in {x \in IndexTensors(cs, out.sizes[cs.r] - 1) : Sorted(x)} :
       \E t \in SrcTensors(cs.sizes) :
          CooDo(t, ix, Segv)

CooNext == CooCall

SpecCoo == CooInit /\ [][CooNext]_vars

\* one call into a zero-filled out
CooZeroInit ==
    /\ op = "" /\ src = NoTensor /\ index = NoTensor /\ out_in = NoTensor
    /\ arg_out = NullOpt /\ status = "idle" /\ calls = 0 /\ work = <<>>
    /\ oob = FALSE /\ ndebug = TRUE
    /\ reduce \in DOMAIN reduce2REDUCE
    /\ out \in OutTensors({0})

CooFirstCall == calls = 0 /\ CooCall

CooZeroNext == CooFirstCall

SpecCooZero == CooZeroInit /\ [][CooZeroNext]_vars

----------------------------------------------------------------------------
(* segment_coo called once with any index: unsorted, or naming groups out *)
(* does not hold                                                          *)

\* the cases with at most MaxE elements
SmallCases == {cs \in Cases : numel(cs.sizes) <= MaxE}

\* what an access outside the buffer may do
Undefined == {Segv} \cup {Silent(g) : g \in PriorFills}

CooAnyInit ==
    /\ op = "" /\ src = NoTensor /\ index = NoTensor /\ out_in = NoTensor
    /\ arg_out = NullOpt /\ status = "idle" /\ calls = 0 /\ work = <<>>
    /\ oob = FALSE
    /\ ndebug \in BOOLEAN
    /\ reduce \in DOMAIN reduce2REDUCE
    /\ out \in {o \in OutTensors({0}) : CasesFor(o.sizes) \cap SmallCases # {}}

\* a call whose index holds any values in 0 .. out.size(reduce_dim) - 1 + over
CooRawCall(over) ==
    /\ status = "idle"
    /\ \E cs \in CasesFor(out.sizes) \cap SmallCases :
       \E ix \in IndexTensors(cs, out.sizes[cs.r] - 1 + over) :
       \E t \in SrcTensors(cs.sizes), ub \in Undefined :
          CooDo(t, ix, ub)

\* the index is in range, in any order
CooUnsortedCall == CooRawCall(0)

CooUnsortedNext == CooUnsortedCall

SpecCooUnsorted == CooAnyInit /\ [][CooUnsortedNext]_vars

\* the index may name the group after out's last
CooAnyCall == CooRawCall(1)

CooAnyNext == CooAnyCall

SpecCooAny == CooAnyInit /\ [][CooAnyNext]_vars

----------------------------------------------------------------------------
(* Calls with arguments the checks at the top of segment_csr and          *)
(* segment_coo reject, among calls they accept                            *)

\* a reduce string the map does not hold
UnknownReduce == "prod"

\* an index tensor of one dimension more than src
RankTooHigh(cs) == Filled(Append(cs.sizes, 2), 0)

\* the out tensors offered for a case: of the sizes the case reduces into,
\* or with one of the other dimensions one larger than src's
OfferedOut(cs) ==
    {Filled(sz, v) :
        sz \in {OutSizes(cs.sizes, cs.r, n) : n \in 1 .. MaxGroups}
               \cup {[OutSizes(cs.sizes, cs.r, n) EXCEPT ![i] = @ + 1] :
                        n \in 1 .. MaxGroups,
                        i \in (1 .. Len(cs.sizes)) \ {cs.r}},
        v \in PriorFills}

CheckInit ==
    /\ Idle /\ ndebug = TRUE
    /\ reduce \in DOMAIN reduce2REDUCE \cup {UnknownReduce}

\* one call of segment_csr, with out omitted or offered
CheckCsr ==
    /\ status = "idle"
    /\ \E cs \in SmallCases :
       \E ip \in IndptrTensors(cs) \cup {RankTooHigh(cs)} :
       \E t \in SrcTensors(cs.sizes), o \in OfferedOut(cs) \cup {NoTensor} :
       \E res \in {segment_csr(t, ip, o, reduce, 0)} :
         /\ op' = "csr" /\ src' = t /\ index' = ip
         /\ out_in' = o /\ out' = res.out /\ arg_out' = res.arg_out
         /\ status' = res.status /\ oob' = res.oob
    /\ UNCHANGED <<reduce, ndebug, calls, work>>

\* one call of segment_coo with a sorted index in the range of the offered out
CheckCoo ==
    /\ status = "idle"
    /\ \E cs \in SmallCases : \E o \in OfferedOut(cs) :
       \E ix \in {x \in IndexTensors(cs, o.sizes[cs.r] - 1) : Sorted(x)}
                 \cup {RankTooHigh(cs)} :
       \E t \in SrcTensors(cs.sizes) :
       \E res \in {segment_coo(t, ix, o, reduce, ndebug, Segv)} :
         /\ op' = "coo" /\ src' = t /\ index' = ix
         /\ out_in' = o /\ out' = res.out /\ arg_out' = res.arg_out
         /\ status' = res.status /\ oob' = res.oob
    /\ UNCHANGED <<reduce, ndebug, calls, work>>

CheckNext == CheckCsr \/ CheckCoo

SpecCheck == CheckInit /\ [][CheckNext]_vars

----------------------------------------------------------------------------
(* The loop bodies of one call run in any order: the groups n of          *)
(* segment_csr, the blocks e_1 of segment_coo.  work holds the loop state *)
(* st, the context c, the out tensor o and the iterations left, todo.     *)

ParInit == Idle /\ ndebug = TRUE /\ reduce \in DOMAIN reduce2REDUCE

ParBegin(o, c, st, n) ==
    /\ out_in' = o /\ out' = o /\ arg_out' = st.arg_out
    /\ work' = [st |-> st, c |-> c, o |-> o, todo |-> 0 .. n - 1]
    /\ status' = "running"
    /\ UNCHANGED <<reduce, ndebug, calls, oob>>

\* segment_csr up to its loop (lines 80-131)
ParCsrStart ==
    /\ status = "idle"
    /\ \E cs \in SmallCases : \E ip \in IndptrTensors(cs) :
       \E t \in SrcTensors(cs.sizes), g \in PriorFills :
       \E o \in {Filled(OutSizes(cs.sizes, cs.r, ip.sizes[cs.r] - 1), g)} :
       \E c \in {csr_context(t, csr_expand(t, ip), o, reduce,
                             csr_N(csr_expand(t, ip), o))} :
         /\ op' = "csr" /\ src' = t /\ index' = ip
         /\ ParBegin(o, c, csr_start(o, c), c.N)

\* the loop body for one of the groups left
ParCsrStep ==
    /\ status = "running" /\ op = "csr"
    /\ \E n \in work.todo :
         work' = [work EXCEPT !.st = csr_group(n, @, work.c),
                              !.todo = @ \ {n}]
    /\ UNCHANGED <<op, reduce, src, index, out_in, out, arg_out, status,
                   ndebug, calls, oob>>

\* segment_coo up to its loop (lines 162-204), index sorted and in range
ParCooStart ==
    /\ status = "idle"
    /\ \E cs \in SmallCases : \E o \in OutTensors(PriorFills) :
       /\ cs \in CasesFor(o.sizes)
       /\ \E ix \in {x \in IndexTensors(cs, o.sizes[cs.r] - 1) : Sorted(x)} :
          \E t \in SrcTensors(cs.sizes) :
          \E c \in {coo_context(t, coo_expand(t, ix), o, reduce, ndebug, Segv)} :
            /\ op' = "coo" /\ src' = t /\ index' = ix
            /\ ParBegin(o, c, coo_start(o, c), c.E_1)

\* the loop body for one of the blocks left
ParCooStep ==
    /\ status = "running" /\ op = "coo"
    /\ \E e_1 \in work.todo :
         work' = [work EXCEPT !.st = coo_block(e_1, @, work.c),
                              !.todo = @ \ {e_1}]
    /\ UNCHANGED <<op, reduce, src, index, out_in, out, arg_out, status,
                   ndebug, calls, oob>>

\* the call returns out and arg_out (lines 156, 251)
ParReturn ==
    /\ status = "running" /\ work.todo = {}
    /\ out' = [work.o EXCEPT !.data = work.st.out]
    /\ arg_out' = work.st.arg_out
    /\ status' = "ok"
    /\ work' = <<>>
    /\ UNCHANGED <<op, reduce, src, index, out_in, ndebug, calls, oob>>

ParNext ==
    ParCsrStart \/ ParCsrStep \/ ParCooStart \/ ParCooStep \/ ParReturn

SpecPar == ParInit /\ [][ParNext]_vars

----------------------------------------------------------------------------
(* The reference reductions, stated on the caller's tensors: src seen as   *)
(* blocks x positions x lanes around the reduce dimension dim(index) - 1.  *)

Blocks == Prod(src.sizes, 1, dim(index) - 1)
Positions == src.sizes[dim(index)]
LaneCount == Prod(src.sizes, dim(index) + 1, dim(src))
Groups == out.sizes[dim(index)]

SrcAt(b, e, k) == src.data[(b * Positions + e) * LaneCount + k]
OutAt(b, g, k) == out.data[(b * Groups + g) * LaneCount + k]
OutInAt(b, g, k) == out_in.data[(b * Groups + g) * LaneCount + k]
ArgOutAt(b, g, k) == arg_out[(b * Groups + g) * LaneCount + k]

\* the entry of the index tensor for block b at position i: a broadcast
\* tensor holds one row shared by all blocks
IndexAt(b, i) ==
    index.data[(IF numel(index.sizes) = index.sizes[dim(index)] THEN 0 ELSE b)
               * index.sizes[dim(index)] + i]

\* the positions of group g of block b under the indptr
CsrMembers(b, g) == {e \in 0 .. Positions - 1 :
                        IndexAt(b, g) <= e /\ e < IndexAt(b, g + 1)}

RECURSIVE SumOver(_, _, _)
\* the sum of src[b, e, k] over the positions e in S
SumOver(S, b, k) ==
    IF S = {} THEN 0
    ELSE LET e == CHOOSE x \in S : TRUE
         IN  SrcAt(b, e, k) + SumOver(S \ {e}, b, k)

MinOver(S, b, k) ==
    CHOOSE v \in Scalar : /\ \E e \in S : SrcAt(b, e, k) = v
                          /\ \A e \in S : v <= SrcAt(b, e, k)
MaxOver(S, b, k) ==
    CHOOSE v \in Scalar : /\ \E e \in S : SrcAt(b, e, k) = v
                          /\ \A e \in S : v >= SrcAt(b, e, k)

\* the reference reduction of the non-empty set S of positions
Reference(S, b, k) ==
    CASE reduce \in {"sum", "add"} -> ToScalar(SumOver(S, b, k))
      [] reduce = "mean" -> Div(ToScalar(SumOver(S, b, k)), Cardinality(S))
      [] reduce = "min" -> MinOver(S, b, k)
      [] reduce = "max" -> MaxOver(S, b, k)

\* the lowest position of S that holds the reference value
FirstWinner(S, b, k) ==
    CHOOSE e \in S : /\ SrcAt(b, e, k) = Reference(S, b, k)
                     /\ \A f \in S : SrcAt(b, f, k) = Reference(S, b, k) => e <= f

Cells == {<<b, g, k>> : b \in 0 .. Blocks - 1, g \in 0 .. Groups - 1,
                        k \in 0 .. LaneCount - 1}

CsrReturned == op = "csr" /\ status = "ok"

----------------------------------------------------------------------------
(* Claims about segment_csr *)

\* C1: a segment_csr call on valid arguments returns, and for each block b,
\* each non-empty group g and each lane k, out[b, g, k] is the reference
\* reduction of src[b, indptr[g] .. indptr[g+1] - 1, k] (sum for sum/add,
\* sum divided by the element count for mean, minimum for min, maximum for
\* max), whatever out held before the call.
C1_CsrValue ==
    op = "csr" =>
        /\ status = "ok"
        /\ \A c \in Cells :
              CsrMembers(c[1], c[2]) # {} =>
                  OutAt(c[1], c[2], c[3])
                      = Reference(CsrMembers(c[1], c[2]), c[1], c[3])

\* C1 witness: a mean over a group of two positions in the second block of
\* a src with two blocks, written over an out that held other values.
C1_Witness ==
    /\ CsrReturned /\ reduce = "mean" /\ Blocks = 2 /\ ~out_in.none
    /\ Cardinality(CsrMembers(1, 0)) = 2
    /\ OutAt(1, 0, 0) # OutInAt(1, 0, 0)
    /\ SrcAt(1, 0, 0) + SrcAt(1, 1, 0) = -3

\* C3: for min and max, arg_out[b, g, k] of every non-empty group is the
\* lowest position of the group that holds the group's minimum (maximum).
C3_CsrFirstWinner ==
    (CsrReturned /\ reduce \in {"min", "max"}) =>
        \A c \in Cells :
            CsrMembers(c[1], c[2]) # {} =>
                ArgOutAt(c[1], c[2], c[3])
                    = FirstWinner(CsrMembers(c[1], c[2]), c[1], c[3])

\* C4: for every empty group the value output is 0 for all reduce kinds,
\* and for min/max the argument output is src.size(reduce_dim).
C4_CsrEmptyGroup ==
    CsrReturned =>
        \A c \in Cells :
            CsrMembers(c[1], c[2]) = {} =>
                /\ OutAt(c[1], c[2], c[3]) = 0
                /\ reduce \in {"min", "max"} =>
                       ArgOutAt(c[1], c[2], c[3]) = Positions

\* C4 witness: a min call whose second group is empty and follows a
\* non-empty one, over an out that held a non-zero value.
C4_Witness ==
    /\ CsrReturned /\ reduce = "min" /\ Groups = 2 /\ ~out_in.none
    /\ CsrMembers(0, 0) # {} /\ CsrMembers(0, 1) = {}
    /\ OutInAt(0, 1, 0) # 0 /\ OutAt(0, 1, 0) = 0

----------------------------------------------------------------------------
(* Claims about segment_coo on valid arguments *)

CooReturned == op = "coo" /\ status = "ok"

\* the positions of block b that the index assigns to group g
CooMembers(b, g) == {e \in 0 .. Positions - 1 : IndexAt(b, e) = g}

\* C2: for sum, every call adds to each out[e_1, g, k] the sum of the
\* src[e_1, e_2, k] with index[e_1, e_2] = g (so that after any sequence of
\* calls out is its first value plus the sums of all the calls): the first
\* group of a block is seeded from out at its own index, and a group the
\* call does not name keeps its value.
C2_CooAccumulates ==
    (CooReturned /\ reduce \in {"sum", "add"}) =>
        \A c \in Cells :
            OutAt(c[1], c[2], c[3])
                = ToScalar(OutInAt(c[1], c[2], c[3])
                           + SumOver(CooMembers(c[1], c[2]), c[1], c[3]))

\* C9: after a min/max call every arg_out[e_1, g, k] is the sentinel
\* src.size(reduce_dim) or a position of group g in block e_1 whose src
\* value is out[e_1, g, k].
C9_CooArgValid ==
    (CooReturned /\ reduce \in {"min", "max"}) =>
        \A c \in Cells :
            \/ ArgOutAt(c[1], c[2], c[3]) = Positions
            \/ /\ ArgOutAt(c[1], c[2], c[3]) \in CooMembers(c[1], c[2])
               /\ SrcAt(c[1], ArgOutAt(c[1], c[2], c[3]), c[3])
                    = OutAt(c[1], c[2], c[3])

\* the indptr derived from the index: indptr[b, g] is the number of
\* positions of block b with index < g
DerivedIndptr ==
    Tensor([i \in 1 .. dim(index) |->
               IF i = dim(index) THEN Groups + 1 ELSE src.sizes[i]],
           [a \in 0 .. Blocks * (Groups + 1) - 1 |->
               Cardinality({e \in 0 .. Positions - 1 :
                   IndexAt(a \div (Groups + 1), e) < a % (Groups + 1)})])

\* C10: for sum and mean, segment_coo on a zero-filled out produces the out
\* segment_csr produces with the indptr derived from the index.
C10_CooMatchesCsr ==
    (op = "coo" /\ reduce \in {"sum", "add", "mean"}) =>
        /\ status = "ok"
        /\ out = segment_csr(src, DerivedIndptr, NoTensor, reduce, 0).out

\* C10 witness: a mean call whose block holds a run of two positions for
\* the second group and none for the first, with a non-zero result.
C10_Witness ==
    /\ CooReturned /\ reduce = "mean" /\ Groups = 2
    /\ Cardinality(CooMembers(0, 1)) = 2 /\ CooMembers(0, 0) = {}
    /\ OutAt(0, 1, 0) = -1 /\ OutAt(0, 0, 0) = 0

----------------------------------------------------------------------------
(* Claims about segment_coo on an index that breaks its preconditions *)

\* C5: a call whose index is unsorted within some block ends in the
\* assertion failure; it never returns normally.
C5_CooUnsortedAsserts ==
    (op = "coo" /\ ~Sorted(index)) => status = "assert"

\* whether the index names a group >= out.size(reduce_dim)
OutOfRange == \E a \in DOMAIN index.data : index.data[a] >= Groups

\* C7: a call whose index holds a value >= out.size(reduce_dim) is reported
\* as a fatal precondition violation, and no access of out or arg_out lands
\* outside the region of the block being processed.
C7_CooBounded ==
    op = "coo" =>
        /\ OutOfRange => status = "Input mismatch"
        /\ ~oob

----------------------------------------------------------------------------
(* Claims about the checks made before the loops *)

RankMismatch == dim(src) < dim(index)

\* src and the supplied out differ in a dimension other than the reduced one
DimMismatch ==
    /\ ~RankMismatch /\ ~out_in.none
    /\ \E i \in 1 .. dim(out_in) :
          i # dim(index) /\ src.sizes[i] # out_in.sizes[i]

\* the supplied out of segment_csr does not hold indptr.size(-1) - 1 groups
CsrSizeMismatch ==
    /\ op = "csr" /\ ~RankMismatch /\ ~out_in.none
    /\ out_in.sizes[dim(index)] # index.sizes[dim(index)] - 1

BadReduce == reduce \notin {"sum", "add", "mean", "min", "max"}

Rejected == RankMismatch \/ DimMismatch \/ CsrSizeMismatch \/ BadReduce

\* C6: a call with a rank mismatch, a mismatched non-reduced dimension, a
\* supplied csr out of the wrong group count or an unknown reduce string
\* fails, and the caller's out is as it was before the call.
C6_RejectedBeforeLoop ==
    (op # "" /\ Rejected) =>
        /\ status \in {"Input mismatch", "out_of_range"}
        /\ out = out_in

\* C6 witness: a segment_coo call rejected for its out's leading dimension,
\* whose src and index would otherwise have changed out.
C6_Witness ==
    /\ op = "coo" /\ DimMismatch /\ ~BadReduce /\ reduce = "sum"
    /\ status = "Input mismatch" /\ src.data[0] = 1 /\ out = out_in

----------------------------------------------------------------------------
(* Claims about the order of the loop iterations *)

\* C8: whichever order the groups of a segment_csr call, or the blocks of a
\* segment_coo call, are processed in, the out and arg_out returned are
\* those of the call as written (in increasing order): no iteration
\* depends on accumulator state left by another.
C8_OrderIndependent ==
    /\ (op = "csr" /\ status = "ok") =>
          /\ out = segment_csr(src, index, out_in, reduce, 0).out
          /\ arg_out = segment_csr(src, index, out_in, reduce, 0).arg_out
    /\ (op = "coo" /\ status = "ok") =>
          /\ out = segment_coo(src, index, out_in, reduce, ndebug, Segv).out
          /\ arg_out
               = segment_coo(src, index, out_in, reduce, ndebug, Segv).arg_out

=============================================================================
